---- MODULE Spec2Model ----
(***************************************************************************)
(* A model of the CRM GraphQL mutations of crm/schema.py over the tables   *)
(* of crm/models.py: createCustomer, bulkCreateCustomers, createProduct    *)
(* and createOrder.                                                        *)
(*                                                                         *)
(* Strings are modelled by what the code does with them:                   *)
(*   - an email is the tuple of its parts around "@";                      *)
(*   - a phone is the tuple of its characters (None is a phone that is not *)
(*     given);                                                             *)
(*   - an id string is a UUID together with its spelling: "canon" is what  *)
(*     str(uuid) prints, "upper" is another spelling uuid.UUID() accepts,  *)
(*     "malformed" is a string that is no UUID.                            *)
(* Decimal amounts are integers counted in cents.                          *)
(***************************************************************************)
EXTENDS Integers, Sequences, FiniteSets, TLC

VARIABLES customers, products, orders, order_products, call

vars == <<customers, products, orders, order_products, call>>

(***************************************************************************)
(* Bounds of the model.                                                    *)
(***************************************************************************)
MaxBatch == 2
MaxIds == 3
MaxProducts == 2
MaxOrders == 1

(***************************************************************************)
(* Program constants: the {7,20} of the phone pattern.                     *)
(***************************************************************************)
PhoneMinLen == 7
PhoneMaxLen == 20

(***************************************************************************)
(* Input domains.                                                          *)
(***************************************************************************)
Clients == {"c1", "c2"}

Names == {"Ann"}

EmailA == <<"a", "x.io">>
EmailB == <<"b", "x.io">>
EmailNoAt == <<"a.x.io">>
Emails == {EmailA, EmailB, EmailNoAt}

NoPhone == [given |-> FALSE, text |-> <<>>]
PhoneOk == [given |-> TRUE, text |-> <<"+", "1", "2", "3", "4", "5", "6", "7">>]
PhoneShort == [given |-> TRUE, text |-> <<"1", "2", "-", "4", "5">>]
Phones == {NoPhone, PhoneOk, PhoneShort}

CustomerInputs == [name : Names, email : Emails, phone : Phones]

RECURSIVE SeqsUpTo(_, _)
SeqsUpTo(S, n) ==
    IF n = 0 THEN {<<>>}
    ELSE LET shorter == SeqsUpTo(S, n - 1)
         IN  shorter \cup {Append(s, x) : s \in {t \in shorter : Len(t) = n - 1}, x \in S}

NoStock == [given |-> FALSE, value |-> 0]
Prices == {1000, 500, 0, -500}
Stocks == {NoStock, [given |-> TRUE, value |-> -1]}
ProductInputs == [name : Names, price : Prices, stock : Stocks]

(***************************************************************************)
(* UUIDs and their spellings.                                              *)
(***************************************************************************)
Uuid(table, n) == <<table, n>>

IdString(u, form) == [uuid |-> u, form |-> form]
MalformedId == [uuid |-> <<"-", 0>>, form |-> "malformed"]

\* str(uuid): the canonical lowercase spelling
str(u) == IdString(u, "canon")

\* UUIDField.to_python: uuid.UUID(hex=value) accepts every spelling of a UUID
is_valid_uuid(s) == s.form # "malformed"
to_python(s) == s.uuid

CustomerIdStrings ==
    {IdString(Uuid("C", 1), "canon"), IdString(Uuid("C", 2), "canon"), MalformedId}
ProductIdStrings ==
    {IdString(Uuid("P", 1), "canon"), IdString(Uuid("P", 1), "upper"),
     IdString(Uuid("P", 2), "canon"), MalformedId}
OrderInputs ==
    [customer_id : CustomerIdStrings, product_ids : SeqsUpTo(ProductIdStrings, MaxIds)]

(***************************************************************************)
(* Validation helpers (schema.py, section 3).                              *)
(***************************************************************************)
Digits == {"0", "1", "2", "3", "4", "5", "6", "7", "8", "9"}
Whitespace == {" ", "\t", "\n", "\r"}
PhoneChars == Digits \cup Whitespace \cup {"-"}

\* re.match(r'^\+?[\d\s-]{7,20}$', phone): "$" also matches before a final newline
phone_pattern_matches(text) ==
    LET body == IF text # <<>> /\ Head(text) = "+" THEN Tail(text) ELSE text
        inClass(t) == \A i \in 1..Len(t) : t[i] \in PhoneChars
    IN  \/ Len(body) >= PhoneMinLen /\ Len(body) <= PhoneMaxLen /\ inClass(body)
        \/ /\ Len(body) > PhoneMinLen /\ Len(body) <= PhoneMaxLen + 1
           /\ body[Len(body)] = "\n"
           /\ inClass(body)

\* truthiness of data.phone: None and "" are falsy
phone_given(phone) == phone.given /\ phone.text # <<>>

\* TRUE when validate_phone_format raises ValidationError
validate_phone_format_raises(phone) ==
    phone_given(phone) /\ ~phone_pattern_matches(phone.text)

\* django.core.validators.validate_email, by its outline: one "@" between a
\* user part and a domain part, both non-empty.  TRUE when it raises.
validate_email_raises(email) ==
    ~(Len(email) = 2 /\ email[1] # "" /\ email[2] # "")

\* Customer.objects.filter(email=...).exists()
email_exists(cs, email) == \E c \in cs : c.email = email

validate_customer_data_phone_first(cs, data) ==
    IF validate_phone_format_raises(data.phone) THEN "InvalidPhone"
    ELSE IF email_exists(cs, data.email) THEN "DuplicateEmail"
    ELSE IF validate_email_raises(data.email) THEN "InvalidEmail"
    ELSE "None"

validate_customer_data(cs, data) ==
    IF email_exists(cs, data.email) THEN "DuplicateEmail"
    ELSE IF validate_email_raises(data.email) THEN "InvalidEmail"
    ELSE IF validate_phone_format_raises(data.phone) THEN "InvalidPhone"
    ELSE "None"

(***************************************************************************)
(* The store: Customer.objects.create under the unique=True of             *)
(* Customer.email.  fault is an unexpected failure of the store.           *)
(***************************************************************************)
CustomerRow(cs, data) ==
    [id |-> Uuid("C", Cardinality(cs) + 1), name |-> data.name,
     email |-> data.email, phone |-> data.phone]

NoRow == [id |-> Uuid("-", 0)]

Customer_create_no_unique(cs, data, fault) ==
    IF fault THEN [raised |-> "StoreError", customers |-> cs, row |-> NoRow]
    ELSE [raised |-> "None", customers |-> cs \cup {CustomerRow(cs, data)},
          row |-> CustomerRow(cs, data)]

Customer_create_not_saved(cs, data, fault) ==
    IF fault THEN [raised |-> "StoreError", customers |-> cs, row |-> NoRow]
    ELSE IF \E c \in cs : c.email = data.email
         THEN [raised |-> "IntegrityError", customers |-> cs, row |-> NoRow]
         ELSE [raised |-> "None", customers |-> cs, row |-> CustomerRow(cs, data)]

Customer_create(cs, data, fault) ==
    IF fault THEN [raised |-> "StoreError", customers |-> cs, row |-> NoRow]
    ELSE IF \E c \in cs : c.email = data.email
         THEN [raised |-> "IntegrityError", customers |-> cs, row |-> NoRow]
         ELSE [raised |-> "None", customers |-> cs \cup {CustomerRow(cs, data)},
               row |-> CustomerRow(cs, data)]

(***************************************************************************)
(* CreateCustomer.mutate                                                   *)
(***************************************************************************)
NoValue == <<>>

CreateCustomer_mutate_create_first(cs, input, fault) ==
    IF fault = "validate"
    THEN [customers |-> cs, status |-> "error", error |-> "StoreError", value |-> NoValue]
    ELSE LET r == Customer_create(cs, input, fault = "create")
             error_message == validate_customer_data(cs, input)
         IN  IF r.raised # "None"
             THEN [customers |-> cs, status |-> "error", error |-> r.raised,
                   value |-> NoValue]
             ELSE IF error_message # "None"
             THEN [customers |-> r.customers, status |-> "error",
                   error |-> error_message, value |-> NoValue]
             ELSE [customers |-> r.customers, status |-> "ok", error |-> "None",
                   value |-> r.row]

CreateCustomer_mutate(cs, input, fault) ==
    IF fault = "validate"
    THEN [customers |-> cs, status |-> "error", error |-> "StoreError", value |-> NoValue]
    ELSE LET error_message == validate_customer_data(cs, input)
         IN  IF error_message # "None"
             THEN [customers |-> cs, status |-> "error", error |-> error_message,
                   value |-> NoValue]
             ELSE LET r == Customer_create(cs, input, fault = "create")
                  IN  IF r.raised # "None"
                      THEN [customers |-> cs, status |-> "error", error |-> r.raised,
                            value |-> NoValue]
                      ELSE [customers |-> r.customers, status |-> "ok",
                            error |-> "None", value |-> r.row]

(***************************************************************************)
(* BulkCreateCustomers.mutate: the loop over enumerate(input).  acc holds  *)
(* the store, created_customers and errors; i is the 1-based position, so  *)
(* the reported index is i - 1.                                            *)
(***************************************************************************)
ErrorEntry(i, data, internal, detail) ==
    [index |-> i - 1, email |-> data.email, internal |-> internal, error |-> detail]

\* the loop body without its "continue": a rejected entry is persisted all the same
bulk_entry_no_continue(acc, data, fault, i) ==
    IF fault = "validate"
    THEN [acc EXCEPT !.errors = Append(@, ErrorEntry(i, data, TRUE, "StoreError"))]
    ELSE LET error_message == validate_customer_data(acc.customers, data)
             noted == IF error_message # "None"
                      THEN [acc EXCEPT !.errors =
                                Append(@, ErrorEntry(i, data, FALSE, error_message))]
                      ELSE acc
             r == Customer_create(acc.customers, data, fault = "create")
         IN  IF r.raised # "None"
             THEN [noted EXCEPT !.errors = Append(@, ErrorEntry(i, data, TRUE, r.raised))]
             ELSE [noted EXCEPT !.customers = r.customers, !.created = Append(@, r.row)]

\* one pass of the loop body, with its try/except
bulk_entry(acc, data, fault, i) ==
    IF fault = "validate"
    THEN [acc EXCEPT !.errors = Append(@, ErrorEntry(i, data, TRUE, "StoreError"))]
    ELSE LET error_message == validate_customer_data(acc.customers, data)
         IN  IF error_message # "None"
             THEN [acc EXCEPT !.errors = Append(@, ErrorEntry(i, data, FALSE, error_message))]
             ELSE LET r == Customer_create(acc.customers, data, fault = "create")
                  IN  IF r.raised # "None"
                      THEN [acc EXCEPT !.errors = Append(@, ErrorEntry(i, data, TRUE, r.raised))]
                      ELSE [acc EXCEPT !.customers = r.customers,
                                       !.created = Append(@, r.row)]

RECURSIVE bulk_loop(_, _, _, _)
bulk_loop(acc, input, faults, i) ==
    IF i > Len(input) THEN acc
    ELSE bulk_loop(bulk_entry(acc, input[i], faults[i], i), input, faults, i + 1)

\* the loop with the try around it: the first error of any kind ends the batch
RECURSIVE bulk_loop_abort(_, _, _, _)
bulk_loop_abort(acc, input, faults, i) ==
    IF i > Len(input) THEN acc
    ELSE LET next == bulk_entry(acc, input[i], faults[i], i)
         IN  IF Len(next.errors) > Len(acc.errors) THEN next
             ELSE bulk_loop_abort(next, input, faults, i + 1)

BulkResult(acc) ==
    [customers |-> acc.customers, status |-> "ok", error |-> "None",
     value |-> [customers |-> acc.created, errors |-> acc.errors]]

BulkCreateCustomers_mutate_abort(cs, input, faults) ==
    BulkResult(bulk_loop_abort([customers |-> cs, created |-> <<>>, errors |-> <<>>],
                               input, faults, 1))

BulkCreateCustomers_mutate(cs, input, faults) ==
    BulkResult(bulk_loop([customers |-> cs, created |-> <<>>, errors |-> <<>>],
                         input, faults, 1))

(***************************************************************************)
(* CreateProduct.mutate                                                    *)
(***************************************************************************)
ProductRow(ps, input) ==
    [id |-> Uuid("P", Cardinality(ps) + 1), name |-> input.name, price |-> input.price,
     stock |-> IF input.stock.given THEN input.stock.value ELSE 0]

CreateProduct_mutate(ps, input, fault) ==
    IF input.price <= 0
    THEN [products |-> ps, status |-> "error", error |-> "InvalidPrice", value |-> NoValue]
    ELSE IF input.stock.given /\ input.stock.value < 0
    THEN [products |-> ps, status |-> "error", error |-> "InvalidStock", value |-> NoValue]
    ELSE IF fault = "create"
    THEN [products |-> ps, status |-> "error", error |-> "StoreError", value |-> NoValue]
    ELSE [products |-> ps \cup {ProductRow(ps, input)}, status |-> "ok",
          error |-> "None", value |-> ProductRow(ps, input)]

(***************************************************************************)
(* CreateOrder.mutate.  db is the pair of tables the handler writes, the   *)
(* Order rows and the rows of the many-to-many table Order.products.       *)
(***************************************************************************)
RECURSIVE sum_prices(_)
sum_prices(ps) ==
    IF ps = {} THEN 0
    ELSE LET p == CHOOSE q \in ps : TRUE
         IN  p.price + sum_prices(ps \ {p})

\* set(product_ids): the distinct strings of the list
unique_ids(product_ids) == {product_ids[i] : i \in 1..Len(product_ids)}

\* Product.objects.filter(id__in=ids), the ids already converted by the field
Product_filter(ps, ids) == {p \in ps : \E s \in ids : to_python(s) = p.id}

OrderRow(os, customer, total_amount) ==
    [id |-> Uuid("O", Cardinality(os) + 1), customer |-> customer.id,
     total_amount |-> total_amount]

OrderFailure(db, error, ids) ==
    [db |-> db, status |-> "error", error |-> error, ids |-> ids, value |-> NoValue]

\* the body of mutate, line by line; a failure leaves db as written so far
CreateOrder_body(cs, ps, db, input, fault) ==
    LET customer_id == input.customer_id
        product_ids == input.product_ids
        unique_product_ids == unique_ids(product_ids)
    IN  IF product_ids = <<>> THEN OrderFailure(db, "EmptyProductList", {})
        ELSE IF ~is_valid_uuid(customer_id)
        THEN OrderFailure(db, "CustomerNotFound", {customer_id})
        ELSE IF fault = "get_customer" THEN OrderFailure(db, "StoreError", {})
        ELSE IF ~\E c \in cs : c.id = to_python(customer_id)
        THEN OrderFailure(db, "CustomerNotFound", {customer_id})
        ELSE IF \E s \in unique_product_ids : ~is_valid_uuid(s)
        THEN OrderFailure(db, "ValidationError",
                          {s \in unique_product_ids : ~is_valid_uuid(s)})
        ELSE IF fault = "filter_products" THEN OrderFailure(db, "StoreError", {})
        ELSE
        LET customer == CHOOSE c \in cs : c.id = to_python(customer_id)
            found == Product_filter(ps, unique_product_ids)
            existing_ids == {str(p.id) : p \in found}
            invalid_ids == unique_product_ids \ existing_ids
            total_amount == sum_prices(found)
            order == OrderRow(db.orders, customer, total_amount)
            written == [db EXCEPT !.orders = @ \cup {order}]
            linked == [written EXCEPT !.order_products =
                           @ \cup {[order |-> order.id, product |-> p.id] : p \in found}]
        IN  IF Cardinality(found) # Cardinality(unique_product_ids)
            THEN OrderFailure(db, "ProductsInvalid", invalid_ids)
            ELSE IF fault = "create_order" THEN OrderFailure(db, "StoreError", {})
            ELSE IF fault = "set_products" THEN OrderFailure(written, "StoreError", {})
            ELSE [db |-> linked, status |-> "ok", error |-> "None", ids |-> {},
                  value |-> order]

\* @transaction.atomic: an exception rolls back every write of the body
transaction_atomic_no_rollback(db, r) == r

transaction_atomic(db, r) == IF r.status = "error" THEN [r EXCEPT !.db = db] ELSE r

\* the decorated mutate; a commit that fails persists nothing
CreateOrder_mutate(cs, ps, db, input, fault) ==
    LET r == transaction_atomic(db, CreateOrder_body(cs, ps, db, input, fault))
    IN  IF r.status = "ok" /\ fault = "commit" THEN OrderFailure(db, "StoreError", {})
        ELSE r

(***************************************************************************)
(* The state machine.  customers, products, orders and order_products are  *)
(* the committed tables.  call[c] is the request of client c: idle, or     *)
(* done with the mutation, its input, the place where the store failed     *)
(* during it (fault) and the handler's outcome; a createCustomer request   *)
(* served concurrently is "validated" between its two store accesses.      *)
(***************************************************************************)
IdleCall ==
    [pc |-> "idle", op |-> "none", input |-> NoValue, fault |-> "none", rerun |-> FALSE,
     status |-> "none", error |-> "None", ids |-> {}, value |-> NoValue]

Done(op, input, fault, rerun, r, ids) ==
    [pc |-> "done", op |-> op, input |-> input, fault |-> fault, rerun |-> rerun,
     status |-> r.status, error |-> r.error, ids |-> ids, value |-> r.value]

Init ==
    /\ customers = {}
    /\ products = {}
    /\ orders = {}
    /\ order_products = {}
    /\ call = [c \in Clients |-> IdleCall]

\* where the store may fail during a mutation
CustomerFaults(faulty) == IF faulty THEN {"none", "validate", "create"} ELSE {"none"}
ProductFaults(faulty) == IF faulty THEN {"none", "create"} ELSE {"none"}
OrderFaults(faulty) ==
    IF faulty
    THEN {"none", "get_customer", "filter_products", "create_order", "set_products", "commit"}
    ELSE {"none"}

CreateCustomer(c, inputs, faulty) ==
    /\ call[c].pc = "idle"
    /\ \E input \in inputs, fault \in CustomerFaults(faulty) :
           LET r == CreateCustomer_mutate(customers, input, fault)
           IN  /\ customers' = r.customers
               /\ call' = [call EXCEPT ![c] =
                               Done("createCustomer", input, fault, FALSE, r, {})]
    /\ UNCHANGED <<products, orders, order_products>>

BulkCreateCustomers(c, inputs, faulty) ==
    /\ call[c].pc = "idle"
    /\ \E input \in SeqsUpTo(inputs, MaxBatch) :
           \E faults \in [1..Len(input) -> CustomerFaults(faulty)] :
               LET r == BulkCreateCustomers_mutate(customers, input, faults)
               IN  /\ customers' = r.customers
                   /\ call' = [call EXCEPT ![c] =
                                   Done("bulkCreateCustomers", input, faults, FALSE, r, {})]
    /\ UNCHANGED <<products, orders, order_products>>

\* the same batch again, directly after its first run
RerunBulkCreateCustomers(c, faulty) ==
    /\ call[c].pc = "done"
    /\ call[c].op = "bulkCreateCustomers"
    /\ ~call[c].rerun
    /\ \E faults \in [1..Len(call[c].input) -> CustomerFaults(faulty)] :
           LET r == BulkCreateCustomers_mutate(customers, call[c].input, faults)
           IN  /\ customers' = r.customers
               /\ call' = [call EXCEPT ![c] =
                      Done("bulkCreateCustomers", call[c].input, faults, TRUE, r, {})]
    /\ UNCHANGED <<products, orders, order_products>>

CreateProduct(c, faulty) ==
    /\ call[c].pc = "idle"
    /\ Cardinality(products) < MaxProducts
    /\ \E input \in ProductInputs, fault \in ProductFaults(faulty) :
           LET r == CreateProduct_mutate(products, input, fault)
           IN  /\ products' = r.products
               /\ call' = [call EXCEPT ![c] =
                               Done("createProduct", input, fault, FALSE, r, {})]
    /\ UNCHANGED <<customers, orders, order_products>>

CreateOrder(c, faulty) ==
    /\ call[c].pc = "idle"
    /\ Cardinality(orders) < MaxOrders
    /\ \E input \in OrderInputs, fault \in OrderFaults(faulty) :
           LET db == [orders |-> orders, order_products |-> order_products]
               r == CreateOrder_mutate(customers, products, db, input, fault)
           IN  /\ orders' = r.db.orders
               /\ order_products' = r.db.order_products
               /\ call' = [call EXCEPT ![c] =
                               Done("createOrder", input, fault, FALSE, r, r.ids)]
    /\ UNCHANGED <<customers, products>>

\* the response is delivered and the client may send its next request
Respond(c) ==
    /\ call[c].pc = "done"
    /\ call' = [call EXCEPT ![c] = IdleCall]
    /\ UNCHANGED <<customers, products, orders, order_products>>

(***************************************************************************)
(* Two requests served concurrently: CreateCustomer.mutate in its two      *)
(* accesses to the store, the query of validate_customer_data (line 96)    *)
(* and the insert (line 101), with the other request's steps in between.   *)
(***************************************************************************)
CreateCustomerValidate(c, inputs) ==
    /\ call[c].pc = "idle"
    /\ \E input \in inputs :
           LET error_message == validate_customer_data(customers, input)
               failed == [status |-> "error", error |-> error_message, value |-> NoValue]
           IN  call' = [call EXCEPT ![c] =
                    IF error_message # "None"
                    THEN Done("createCustomer", input, "none", FALSE, failed, {})
                    ELSE [IdleCall EXCEPT !.pc = "validated", !.op = "createCustomer",
                                          !.input = input]]
    /\ UNCHANGED <<customers, products, orders, order_products>>

CreateCustomerInsert(c) ==
    /\ call[c].pc = "validated"
    /\ LET r == Customer_create(customers, call[c].input, FALSE)
           outcome == IF r.raised # "None"
                      THEN [status |-> "error", error |-> r.raised, value |-> NoValue]
                      ELSE [status |-> "ok", error |-> "None", value |-> r.row]
       IN  /\ customers' = r.customers
           /\ call' = [call EXCEPT ![c] =
                           Done("createCustomer", call[c].input, "none", FALSE, outcome, {})]
    /\ UNCHANGED <<products, orders, order_products>>

(***************************************************************************)
(* Specifications.                                                         *)
(*   Spec           the customer mutations, one request at a time, each    *)
(*                  handler run to its end, a store that does not fail;    *)
(*   SpecFault      the same with a store that may fail at any access;     *)
(*   SpecConc       two clients whose createCustomer requests interleave;  *)
(*   SpecOrder      the order workflow (customers, products, orders), one  *)
(*                  request at a time, a store that does not fail;         *)
(*   SpecOrderFault the same with a store that may fail at any access.     *)
(***************************************************************************)
Next ==
    \/ CreateCustomer("c1", CustomerInputs, FALSE)
    \/ BulkCreateCustomers("c1", CustomerInputs, FALSE)
    \/ RerunBulkCreateCustomers("c1", FALSE)
    \/ Respond("c1")

Spec == Init /\ [][Next]_vars

NextFault ==
    \/ CreateCustomer("c1", CustomerInputs, TRUE)
    \/ BulkCreateCustomers("c1", CustomerInputs, TRUE)
    \/ Respond("c1")

SpecFault == Init /\ [][NextFault]_vars

\* the customer inputs of the other specifications: a valid one for each
\* email and one with a malformed email
PlainCustomerInputs == {i \in CustomerInputs : i.phone = NoPhone}

NextConc ==
    \E c \in Clients :
        \/ CreateCustomerValidate(c, CustomerInputs)
        \/ CreateCustomerInsert(c)
        \/ BulkCreateCustomers(c, PlainCustomerInputs, FALSE)
        \/ Respond(c)

SpecConc == Init /\ [][NextConc]_vars

OrderCustomerInputs == {i \in PlainCustomerInputs : i.email # EmailB}

NextOrder ==
    \/ CreateCustomer("c1", OrderCustomerInputs, FALSE)
    \/ BulkCreateCustomers("c1", OrderCustomerInputs, FALSE)
    \/ CreateProduct("c1", FALSE)
    \/ CreateOrder("c1", FALSE)
    \/ Respond("c1")

SpecOrder == Init /\ [][NextOrder]_vars

NextOrderFault ==
    \/ CreateCustomer("c1", OrderCustomerInputs, TRUE)
    \/ BulkCreateCustomers("c1", OrderCustomerInputs, TRUE)
    \/ CreateProduct("c1", TRUE)
    \/ CreateOrder("c1", TRUE)
    \/ Respond("c1")

SpecOrderFault == Init /\ [][NextOrderFault]_vars

(***************************************************************************)
(* Properties.  A handler's step is recognised by the call it completes:   *)
(* call'[c] is done with the mutation, call[c] was idle (or, for a re-run, *)
(* done with the first run).                                               *)
(***************************************************************************)
Handled(c, op) ==
    /\ call'[c].pc = "done"
    /\ call'[c].op = op
    /\ \/ call[c].pc = "idle"
       \/ call[c].pc = "done" /\ ~call[c].rerun /\ call'[c].rerun

EmailsOf(cs) == {row.email : row \in cs}

\* C1: the store never holds two Customer rows with the same email, whatever
\* createCustomer and bulkCreateCustomers calls ran, succeeded or failed.
EmailsUnique ==
    \A a \in customers : \A b \in customers : a.email = b.email => a = b

\* a request lost the race for an email and the unique column turned it down
EmailsUniqueWitness ==
    \E c \in Clients :
        /\ call[c].pc = "done"
        /\ call[c].error = "IntegrityError"
        /\ call[c].input.email \in EmailsOf(customers)

\* C2: createCustomer with an email some Customer row already holds fails with
\* the duplicate-email error and leaves the Customer table as it was.
DuplicateEmailRejected ==
    [][\A c \in Clients :
          ( /\ call[c].pc = "idle"
            /\ call'[c].pc # "idle"
            /\ call'[c].op = "createCustomer"
            /\ call'[c].input.email \in EmailsOf(customers) )
              => /\ call'[c].pc = "done"
                 /\ call'[c].status = "error"
                 /\ call'[c].error = "DuplicateEmail"
                 /\ customers' = customers]_vars

DuplicateEmailRejectedWitness ==
    /\ call["c1"].pc = "done"
    /\ call["c1"].op = "createCustomer"
    /\ call["c1"].input.email \in EmailsOf(customers)
    /\ call["c1"].input.phone = PhoneShort
    /\ call["c1"].error = "DuplicateEmail"

\* C3: entry i of a batch is invalid when its email or phone is malformed, its
\* email is in the store before the call, or an earlier accepted entry of the
\* batch has its email; with k invalid entries among N the call returns N - k
\* customers and k errors and the store gains exactly N - k rows.
RECURSIVE InvalidEntry(_, _, _)
InvalidEntry(cs, batch, i) ==
    \/ validate_email_raises(batch[i].email)
    \/ validate_phone_format_raises(batch[i].phone)
    \/ batch[i].email \in EmailsOf(cs)
    \/ \E j \in 1..(i - 1) : batch[j].email = batch[i].email /\ ~InvalidEntry(cs, batch, j)

InvalidCount(cs, batch) == Cardinality({i \in 1..Len(batch) : InvalidEntry(cs, batch, i)})

BulkCounts ==
    [][\A c \in Clients :
          Handled(c, "bulkCreateCustomers")
              => LET N == Len(call'[c].input)
                     k == InvalidCount(customers, call'[c].input)
                 IN  /\ Len(call'[c].value.customers) = N - k
                     /\ Len(call'[c].value.errors) = k
                     /\ customers \subseteq customers'
                     /\ Cardinality(customers' \ customers) = N - k]_vars

\* a batch of two with the same new email twice: one row, one error
BulkCountsWitness ==
    /\ call["c1"].pc = "done"
    /\ call["c1"].op = "bulkCreateCustomers"
    /\ ~call["c1"].rerun
    /\ Len(call["c1"].input) = 2
    /\ call["c1"].input[1].email = call["c1"].input[2].email
    /\ Len(call["c1"].value.customers) = 1
    /\ Len(call["c1"].value.errors) = Len(call["c1"].input) - 1
    /\ call["c1"].value.errors[1].index = 1
    /\ call["c1"].value.errors[1].error = "DuplicateEmail"

\* C4: the same batch run again directly after its first run gives one error
\* per entry, no created customer and no new Customer row.
BulkRerun ==
    [][\A c \in Clients :
          (Handled(c, "bulkCreateCustomers") /\ call'[c].rerun)
              => /\ Len(call'[c].value.errors) = Len(call'[c].input)
                 /\ call'[c].value.customers = <<>>
                 /\ customers' = customers]_vars

\* the re-run of a batch whose first run created every entry
BulkRerunWitness ==
    /\ call["c1"].pc = "done"
    /\ call["c1"].op = "bulkCreateCustomers"
    /\ call["c1"].rerun
    /\ Len(call["c1"].input) >= 2
    /\ \A i \in 1..Len(call["c1"].input) :
           call["c1"].value.errors[i].error = "DuplicateEmail"
    /\ Cardinality(customers) >= 2

\* what a product-id string names: the Product row with the UUID it spells
ProductNamed(s) == {p \in products : is_valid_uuid(s) /\ p.id = to_python(s)}

CustomerNamed(s) == {c \in customers : is_valid_uuid(s) /\ c.id = to_python(s)}

ProductsOf(order_id) ==
    {p \in products : [order |-> order_id, product |-> p.id] \in order_products}

RequestedIds(c) == unique_ids(call[c].input.product_ids)

\* C5: createOrder for an existing customer with product ids that all exist,
\* some of them repeated, creates an order linked once to each distinct
\* requested product, its total_amount the sum of their prices.
OrderLinksDistinctProducts ==
    \A c \in Clients :
        ( /\ call[c].pc = "done"
          /\ call[c].op = "createOrder"
          /\ CustomerNamed(call[c].input.customer_id) # {}
          /\ \A s \in RequestedIds(c) : ProductNamed(s) # {}
          /\ \E i, j \in 1..Len(call[c].input.product_ids) :
                 i < j /\ call[c].input.product_ids[i] = call[c].input.product_ids[j] )
            => /\ call[c].status = "ok"
               /\ ProductsOf(call[c].value.id)
                      = UNION {ProductNamed(s) : s \in RequestedIds(c)}
               /\ call[c].value.total_amount
                      = sum_prices(UNION {ProductNamed(s) : s \in RequestedIds(c)})

\* C5 for lists in which a product is always spelled the same way
OrderLinksDistinctProductsSameSpelling ==
    \A c \in Clients :
        ( /\ call[c].pc = "done"
          /\ call[c].op = "createOrder"
          /\ CustomerNamed(call[c].input.customer_id) # {}
          /\ \A s \in RequestedIds(c) : ProductNamed(s) # {}
          /\ \A s, t \in RequestedIds(c) : ProductNamed(s) = ProductNamed(t) => s = t
          /\ Len(call[c].input.product_ids) > Cardinality(RequestedIds(c)) )
            => /\ call[c].status = "ok"
               /\ ProductsOf(call[c].value.id)
                      = UNION {ProductNamed(s) : s \in RequestedIds(c)}
               /\ call[c].value.total_amount
                      = sum_prices(UNION {ProductNamed(s) : s \in RequestedIds(c)})

\* C6: createOrder for an existing customer with a product id that has no
\* Product row fails, adds no Order row and no link, and names in its error
\* exactly the requested ids without a Product row.
MissingProductsNamed ==
    [][\A c \in Clients :
          ( /\ Handled(c, "createOrder")
            /\ CustomerNamed(call'[c].input.customer_id) # {}
            /\ \E s \in unique_ids(call'[c].input.product_ids) : ProductNamed(s) = {} )
              => /\ call'[c].status = "error"
                 /\ orders' = orders
                 /\ order_products' = order_products
                 /\ call'[c].ids = {s \in unique_ids(call'[c].input.product_ids) :
                                        ProductNamed(s) = {}}]_vars

\* C6 without the ids the error names: the call fails and writes nothing
MissingProductsRejected ==
    [][\A c \in Clients :
          ( /\ Handled(c, "createOrder")
            /\ CustomerNamed(call'[c].input.customer_id) # {}
            /\ \E s \in unique_ids(call'[c].input.product_ids) : ProductNamed(s) = {} )
              => /\ call'[c].status = "error"
                 /\ orders' = orders
                 /\ order_products' = order_products]_vars

\* C7: every committed Order row references an existing Customer, is linked to
\* at least one existing Product and totals its linked products' prices, every
\* link belongs to an Order row, and a createOrder that fails at any step
\* leaves the Order table and the link table as they were.
OrdersWellFormed(cs, ps, os, links) ==
    /\ \A o \in os :
           LET linked == {p \in ps : [order |-> o.id, product |-> p.id] \in links}
           IN  /\ \E c \in cs : c.id = o.customer
               /\ linked # {}
               /\ o.total_amount = sum_prices(linked)
    /\ \A l \in links :
           /\ \E o \in os : o.id = l.order
           /\ \E p \in ps : p.id = l.product

OrderAllOrNothing ==
    [][/\ OrdersWellFormed(customers', products', orders', order_products')
       /\ \A c \in Clients :
              (Handled(c, "createOrder") /\ call'[c].status = "error")
                  => orders' = orders /\ order_products' = order_products]_vars

\* the store failed after the Order row was written, before the links were set
OrderAllOrNothingWitness ==
    /\ call["c1"].pc = "done"
    /\ call["c1"].op = "createOrder"
    /\ call["c1"].fault = "set_products"
    /\ call["c1"].error = "StoreError"
    /\ Cardinality(RequestedIds("c1")) = 2
    /\ orders = {}

\* C8: validateCustomer reports the first failing check in the order duplicate
\* email, email syntax, phone format: a held email gives the duplicate-email
\* error whatever else is wrong, a new malformed email the invalid-email error
\* even with a malformed phone.
ValidationOrder ==
    [][\A c \in Clients :
          Handled(c, "createCustomer")
              => LET data == call'[c].input
                     held == data.email \in EmailsOf(customers)
                     badEmail == validate_email_raises(data.email)
                     badPhone == validate_phone_format_raises(data.phone)
                 IN  /\ held => call'[c].error = "DuplicateEmail"
                     /\ (~held /\ badEmail) => call'[c].error = "InvalidEmail"
                     /\ (~held /\ ~badEmail /\ badPhone) => call'[c].error = "InvalidPhone"
                     /\ (~held /\ ~badEmail /\ ~badPhone) => call'[c].status = "ok"]_vars

ValidationOrderWitness ==
    /\ call["c1"].pc = "done"
    /\ call["c1"].op = "createCustomer"
    /\ call["c1"].input.email = EmailNoAt
    /\ call["c1"].input.phone = PhoneShort
    /\ call["c1"].error = "InvalidEmail"
    /\ customers # {}

\* C9: a store failure at entry i of a batch becomes one "Internal error" entry
\* for index i, the entries after it are still processed, and the customers
\* and the errors returned add up to the batch length.
BulkNeverAborts ==
    [][\A c \in Clients :
          Handled(c, "bulkCreateCustomers")
              => LET input == call'[c].input
                     faults == call'[c].fault
                     created == call'[c].value.customers
                     errors == call'[c].value.errors
                     errorsAt(i) == {n \in 1..Len(errors) : errors[n].index = i - 1}
                 IN  /\ call'[c].status = "ok"
                     /\ Len(created) + Len(errors) = Len(input)
                     /\ \A i \in 1..Len(input) :
                            /\ Cardinality(errorsAt(i)) <= 1
                            /\ \/ errorsAt(i) # {}
                               \/ \E n \in 1..Len(created) : created[n].email = input[i].email
                            /\ faults[i] # "none" => errorsAt(i) # {}
                            /\ faults[i] = "validate" =>
                                   \A n \in errorsAt(i) :
                                       /\ errors[n].internal
                                       /\ errors[n].email = input[i].email]_vars

\* the store failed at the first entry and the second was created
BulkNeverAbortsWitness ==
    /\ call["c1"].pc = "done"
    /\ call["c1"].op = "bulkCreateCustomers"
    /\ Len(call["c1"].input) = 2
    /\ call["c1"].fault[1] = "create"
    /\ Len(call["c1"].value.errors) = 1
    /\ call["c1"].value.errors[1].internal
    /\ call["c1"].value.errors[1].index = 0
    /\ Len(call["c1"].value.customers) = 1
    /\ call["c1"].value.customers[1].email = call["c1"].input[2].email

\* C10: of two concurrent createCustomer requests with the same new email one
\* creates the row and the other is rejected by validation with the
\* duplicate-email error, before it attempts a write.
ConcurrentDuplicateRejected ==
    \A c, d \in Clients :
        ( /\ c # d
          /\ call[c].pc = "done" /\ call[c].op = "createCustomer"
          /\ call[d].pc = "done" /\ call[d].op = "createCustomer"
          /\ call[c].input.email = call[d].input.email
          /\ call[c].status = "ok" )
            => call[d].status = "error" /\ call[d].error = "DuplicateEmail"

====
